---------------------------- MODULE Spec2Model ----------------------------
(***************************************************************************)
(* Model of the temperature-sensor ingestion pipeline:                     *)
(*   - is_valid_reading / save_temperature   (src/temperature/database.py) *)
(*   - SettingsStore                         (src/temperature/models.py)   *)
(*   - RedisSubscriber          (src/temperature/redis_subscriber.py)      *)
(*   - on_message                            (src/temperature/app.py)      *)
(*                                                                         *)
(* Temperatures are Python floats.  The model draws them from integer      *)
(* valued floats; for these prev*(1-0.25) and prev*(1+0.25) are exact in   *)
(* binary floating point, so the band test is modelled by the integer      *)
(* comparison 100*new against prev*(100 -+ 25).                            *)
(***************************************************************************)
EXTENDS Integers, Sequences, FiniteSets

VARIABLES
    fPc,        \* filter harness: "call" before is_valid_reading ran, "return" after
    fNew,       \* argument new_value
    fPrev,      \* argument prev_value (None when absent)
    fPrevPrev,  \* argument prev_prev_value (None when absent)
    fResult,    \* value returned by is_valid_reading
    settings,   \* SettingsStore.settings, the in-memory dict
    file,       \* settings.json on disk
    lock,       \* SettingsStore.lock: the thread holding it, None when free
    pc,         \* per thread: position inside get_threshold / set_threshold
    op,         \* per thread: the call in progress or last completed
    arg,        \* per thread: the value passed to set_threshold
    ret,        \* per thread: the value the last completed call returned
    saveFailed, \* per thread: _save_settings caught an exception in this call
    memBefore,  \* history: get_threshold's value when the set took the lock
    expect,     \* history: committed when the get took the lock
    committed,  \* history: value of the set that last released the lock,
                \*          or the value loaded at startup
    durable,    \* history: value of the last json.dump that succeeded
    hist,       \* table temperature_records: the rows, in insertion order
    last,       \* history: the last save_temperature call (arguments, verdicts)
    histB,      \* paired run: the table of a second run of the pipeline
    varied,     \* paired run: the sensor whose raw values differ between the runs
    running,    \* RedisSubscriber.running
    redis_client, \* RedisSubscriber.redis_client: None or the client object
    pubsub,     \* RedisSubscriber.pubsub: None or the PubSub object, named by
                \*          the worker that created it
    thread,     \* RedisSubscriber.thread: None or the worker last spawned
    pubsubClosed, \* per PubSub object (named by its creator): close() was called
    unsubscribed, \* per PubSub object: unsubscribe(channel) was called on it
    pinged,     \* history: redis_client.ping() has succeeded
    wpc,        \* per worker: position inside _listen_loop
    wcur,       \* per worker: the payload of the message being processed
    wexit,      \* per worker: why it left the for loop: "break", "error" (of
                \*          the transport) or "escaped" (an exception of the body)
    ctl,        \* the caller's position inside stop()
    joined,     \* history: how the last thread.join(timeout=5) returned
    lastCall,   \* history: the last start() or stop() that returned
    lastMsg,    \* history: the last message the loop body ran for, how it
                \*          ended, and whether the one before it had failed
    raws        \* history: the raw sensor-1 values of the messages, in order

filterVars == <<fPc, fNew, fPrev, fPrevPrev, fResult>>

storeVars == <<settings, file, lock, pc, op, arg, ret, saveFailed, memBefore,
               expect, committed, durable>>

pipeVars == <<hist, last>>

pairVars == <<histB, varied>>

subVars == <<running, redis_client, pubsub, thread, pubsubClosed, unsubscribed,
             pinged, wpc,
             wcur, wexit, ctl, joined, lastCall>>

msgVars == <<lastMsg, raws>>

vars == <<filterVars, storeVars, pipeVars, pairVars, subVars, msgVars>>

\* what the SettingsStore operations leave alone
notStore == <<filterVars, pipeVars, pairVars, subVars, msgVars>>

\* what the filter harness leaves alone
notFilter == <<storeVars, pipeVars, pairVars, subVars, msgVars>>

\* what the pipeline (both runs of it) leaves alone
notPipe == <<filterVars, storeVars, subVars, msgVars>>

\* what the subscriber and its callback leave alone
notSub == <<filterVars, storeVars, pairVars, last>>

---------------------------------------------------------------------------
(* Values *)

\* Python None for an absent previous value
None == -100000

\* the sentinel -999.0 "sensor reported no valid reading"
Sentinel == -999

\* default min_temp=10.0
min_temp == 10

\* default threshold_percent=0.25, in percent
threshold_percent == 25

\* model bounds: temperatures -NegSpan..MaxTemp, plus the values of the
\* documented scenarios
MaxTemp == 24

NegSpan == 2

ScenarioTemps == {50, 60, 80, 85, 90, 100, 110}

Temps == ((0 - NegSpan)..MaxTemp) \cup ScenarioTemps

\* a raw or stored sensor value: a temperature or the sentinel
Values == Temps \cup {Sentinel}

\* a previous value as save_temperature passes it: a stored value or None
OptValues == Values \cup {None}

\* SettingsStore(default_threshold=200.0)
default_threshold == 200

\* model bounds: the thresholds callers set are 1..MaxThresh (and the
\* default), the caller threads are 1..NumThreads
MaxThresh == 2

NumThreads == 2

ThreshVals == (1..MaxThresh) \cup {default_threshold}

Threads == 1..NumThreads

\* settings.json does not exist
FileAbsent == [kind |-> "absent", text |-> <<>>]

\* no save_temperature call has been made since the table was last emptied
NoCall ==
    [called |-> FALSE, raw |-> <<Sentinel, Sentinel>>, filter |-> FALSE,
     rejected |-> <<FALSE, FALSE>>, outcome |-> "none"]

\* model bound: start() spawns at most MaxWorkers worker threads in a run
MaxWorkers == 2

Workers == 1..MaxWorkers

\* the one Redis client object connect() creates
Client == 1

\* message["data"] that json.loads rejects (the fields are unused)
Undecodable == [decodable |-> FALSE, avg_temp1 |-> None, avg_temp2 |-> None]

\* the loop body has not run for any message
NoMsg ==
    [delivered |-> FALSE, payload |-> Undecodable, outcome |-> "none",
     afterFailure |-> FALSE]

---------------------------------------------------------------------------
(* The parts of the state a specification does not exercise *)

\* the harness is not running
FilterOff ==
    /\ fPc = "off"
    /\ fNew = Sentinel
    /\ fPrev = None
    /\ fPrevPrev = None
    /\ fResult = FALSE

\* the store is not part of the run
StoreOff ==
    /\ settings = [temp_threshold |-> default_threshold]
    /\ file = FileAbsent
    /\ lock = None
    /\ pc = [t \in Threads |-> "off"]
    /\ op = [t \in Threads |-> "none"]
    /\ arg = [t \in Threads |-> None]
    /\ ret = [t \in Threads |-> None]
    /\ saveFailed = [t \in Threads |-> FALSE]
    /\ memBefore = [t \in Threads |-> None]
    /\ expect = [t \in Threads |-> None]
    /\ committed = None
    /\ durable = None

\* the pipeline is not part of the run
PipeOff ==
    /\ hist = << >>
    /\ last = NoCall
    /\ histB = << >>
    /\ varied = 1

\* no RedisSubscriber is part of the run
SubOff ==
    /\ running = FALSE
    /\ redis_client = None
    /\ pubsub = None
    /\ thread = None
    /\ pubsubClosed = [w \in Workers |-> FALSE]
    /\ unsubscribed = [w \in Workers |-> FALSE]
    /\ pinged = FALSE
    /\ wpc = [w \in Workers |-> "off"]
    /\ wcur = [w \in Workers |-> Undecodable]
    /\ wexit = [w \in Workers |-> "none"]
    /\ ctl = "off"
    /\ joined = "none"
    /\ lastCall = "none"

\* no message is delivered in the run
MsgOff ==
    /\ lastMsg = NoMsg
    /\ raws = << >>

---------------------------------------------------------------------------
(* is_valid_reading *)

\* lower_bound <= new_value <= upper_bound
InBand(new_value, prev_value) ==
    /\ prev_value * (100 - threshold_percent) <= 100 * new_value
    /\ 100 * new_value <= prev_value * (100 + threshold_percent)

\* both trends strictly positive or both strictly negative
SameDirection(new_value, prev_value, prev_prev_value) ==
    LET prev_trend == prev_value - prev_prev_value
        current_trend == new_value - prev_value
    IN  \/ (prev_trend > 0 /\ current_trend > 0)
        \/ (prev_trend < 0 /\ current_trend < 0)

\* mutant: the band test excludes its end points
ValidStrictBand(new_value, prev_value, prev_prev_value) ==
    IF prev_value = None \/ prev_value = Sentinel THEN TRUE
    ELSE IF new_value = Sentinel THEN TRUE
    ELSE IF new_value < min_temp THEN FALSE
    ELSE IF /\ prev_value * (100 - threshold_percent) < 100 * new_value
            /\ 100 * new_value < prev_value * (100 + threshold_percent) THEN TRUE
    ELSE IF prev_prev_value # None /\ prev_prev_value # Sentinel
            /\ SameDirection(new_value, prev_value, prev_prev_value) THEN TRUE
    ELSE FALSE

\* mutant: the floor is tested after the band instead of before it
ValidFloorAfterBand(new_value, prev_value, prev_prev_value) ==
    IF prev_value = None \/ prev_value = Sentinel THEN TRUE
    ELSE IF new_value = Sentinel THEN TRUE
    ELSE IF InBand(new_value, prev_value) THEN TRUE
    ELSE IF new_value < min_temp THEN FALSE
    ELSE IF prev_prev_value # None /\ prev_prev_value # Sentinel
            /\ SameDirection(new_value, prev_value, prev_prev_value) THEN TRUE
    ELSE FALSE

\* mutant: the trends are compared with >= and <= (a flat trend counts)
ValidLooseTrend(new_value, prev_value, prev_prev_value) ==
    IF prev_value = None \/ prev_value = Sentinel THEN TRUE
    ELSE IF new_value = Sentinel THEN TRUE
    ELSE IF new_value < min_temp THEN FALSE
    ELSE IF InBand(new_value, prev_value) THEN TRUE
    ELSE IF prev_prev_value # None /\ prev_prev_value # Sentinel
            /\ \/ (prev_value - prev_prev_value >= 0 /\ new_value - prev_value >= 0)
               \/ (prev_value - prev_prev_value <= 0 /\ new_value - prev_value <= 0)
         THEN TRUE
    ELSE FALSE

\* mutant: the floor is tested first, before the sentinel tests
ValidFloorFirst(new_value, prev_value, prev_prev_value) ==
    IF new_value < min_temp /\ new_value # Sentinel THEN FALSE
    ELSE IF prev_value = None \/ prev_value = Sentinel THEN TRUE
    ELSE IF new_value = Sentinel THEN TRUE
    ELSE IF InBand(new_value, prev_value) THEN TRUE
    ELSE IF prev_prev_value # None /\ prev_prev_value # Sentinel
            /\ SameDirection(new_value, prev_value, prev_prev_value) THEN TRUE
    ELSE FALSE

is_valid_reading(new_value, prev_value, prev_prev_value) ==
    IF prev_value = None \/ prev_value = Sentinel THEN TRUE
    ELSE IF new_value = Sentinel THEN TRUE
    ELSE IF new_value < min_temp THEN FALSE
    ELSE IF InBand(new_value, prev_value) THEN TRUE
    ELSE IF prev_prev_value # None /\ prev_prev_value # Sentinel
            /\ SameDirection(new_value, prev_value, prev_prev_value) THEN TRUE
    ELSE FALSE

---------------------------------------------------------------------------
(* SettingsStore *)

\* json.dump(self.settings, f): the text, as its list of members
\* (the store only ever holds the key "temp_threshold")
Dumps(d) ==
    IF "temp_threshold" \in DOMAIN d
    THEN << <<"temp_threshold", d["temp_threshold"]>> >>
    ELSE << >>

\* json.load(f): the dict of the members
Loads(text) == [k \in {text[i][1] : i \in DOMAIN text} |->
                   LET i == CHOOSE i \in DOMAIN text : text[i][1] = k
                   IN text[i][2]]

\* settings.json truncated by open(..., "w") (not decodable), or holding the
\* text of a complete dump
FileTruncated == [kind |-> "truncated", text |-> <<>>]

FileJson(d) == [kind |-> "json", text |-> Dumps(d)]

\* the dict _load_settings leaves in self.settings
LoadSettings(f) ==
    IF f.kind = "json" THEN Loads(f.text)
    ELSE [temp_threshold |-> default_threshold]

\* self.settings.get("temp_threshold", self.default_threshold)
Threshold(d) ==
    IF "temp_threshold" \in DOMAIN d THEN d["temp_threshold"]
    ELSE default_threshold

\* settings_store = SettingsStore(): the file of an earlier run, if any, is
\* one that run wrote completely
StoreInit ==
    /\ file \in {FileAbsent} \cup {FileJson([temp_threshold |-> v]) : v \in ThreshVals}
    /\ settings = LoadSettings(file)
    /\ lock = None
    /\ pc = [t \in Threads |-> "idle"]
    /\ op = [t \in Threads |-> "none"]
    /\ arg = [t \in Threads |-> None]
    /\ ret = [t \in Threads |-> None]
    /\ saveFailed = [t \in Threads |-> FALSE]
    /\ memBefore = [t \in Threads |-> None]
    /\ expect = [t \in Threads |-> None]
    /\ committed = Threshold(LoadSettings(file))
    /\ durable = IF file.kind = "json" THEN Threshold(Loads(file.text)) ELSE None
    /\ FilterOff
    /\ PipeOff
    /\ SubOff
    /\ MsgOff

\* a caller enters set_threshold(value)
SetCall(t, value) ==
    /\ pc[t] = "idle"
    /\ pc' = [pc EXCEPT ![t] = "set_lock"]
    /\ op' = [op EXCEPT ![t] = "set"]
    /\ arg' = [arg EXCEPT ![t] = value]
    /\ UNCHANGED <<settings, file, lock, ret, saveFailed, memBefore, expect, committed, durable>>
    /\ UNCHANGED notStore

\* mutant: set_threshold does not wait for the lock
SetAcquireUnlocked(t) ==
    /\ pc[t] = "set_lock"
    /\ lock' = t
    /\ pc' = [pc EXCEPT ![t] = "set_assign"]
    /\ memBefore' = [memBefore EXCEPT ![t] = Threshold(settings)]
    /\ UNCHANGED <<settings, file, op, arg, ret, saveFailed, expect, committed, durable>>
    /\ UNCHANGED notStore

\* with self.lock: (set_threshold)
SetAcquire(t) ==
    /\ pc[t] = "set_lock"
    /\ lock = None
    /\ lock' = t
    /\ pc' = [pc EXCEPT ![t] = "set_assign"]
    /\ memBefore' = [memBefore EXCEPT ![t] = Threshold(settings)]
    /\ UNCHANGED <<settings, file, op, arg, ret, saveFailed, expect, committed, durable>>
    /\ UNCHANGED notStore

\* mutant: the assignment to the dict is left out
SetAssignSkipped(t) ==
    /\ pc[t] = "set_assign"
    /\ pc' = [pc EXCEPT ![t] = "save_open"]
    /\ UNCHANGED <<settings, file, lock, op, arg, ret, saveFailed, memBefore, expect,
                   committed, durable>>
    /\ UNCHANGED notStore

\* self.settings["temp_threshold"] = value
SetAssign(t) ==
    /\ pc[t] = "set_assign"
    /\ settings' = [k \in DOMAIN settings \cup {"temp_threshold"} |->
                        IF k = "temp_threshold" THEN arg[t] ELSE settings[k]]
    /\ pc' = [pc EXCEPT ![t] = "save_open"]
    /\ UNCHANGED <<file, lock, op, arg, ret, saveFailed, memBefore, expect, committed, durable>>
    /\ UNCHANGED notStore

\* _save_settings: open(SETTINGS_FILE, "w") truncates the file, or raises and
\* the except clause prints the error
SaveOpen(t) ==
    /\ pc[t] = "save_open"
    /\ \/ /\ file' = FileTruncated
          /\ pc' = [pc EXCEPT ![t] = "save_dump"]
          /\ UNCHANGED saveFailed
       \/ /\ pc' = [pc EXCEPT ![t] = "set_return"]
          /\ saveFailed' = [saveFailed EXCEPT ![t] = TRUE]
          /\ UNCHANGED file
    /\ UNCHANGED <<settings, lock, op, arg, ret, memBefore, expect, committed, durable>>
    /\ UNCHANGED notStore

\* _save_settings: json.dump(self.settings, f, indent=2) writes the whole
\* dict, or raises part-way and the except clause prints the error
SaveDump(t) ==
    /\ pc[t] = "save_dump"
    /\ \/ /\ file' = FileJson(settings)
          /\ durable' = Threshold(settings)
          /\ UNCHANGED saveFailed
       \/ /\ saveFailed' = [saveFailed EXCEPT ![t] = TRUE]
          /\ UNCHANGED <<file, durable>>
    /\ UNCHANGED notStore
    /\ pc' = [pc EXCEPT ![t] = "set_return"]
    /\ UNCHANGED <<settings, lock, op, arg, ret, memBefore, expect, committed>>
    /\ UNCHANGED notStore

\* return value (set_threshold), leaving the with block
SetReturn(t) ==
    /\ pc[t] = "set_return"
    /\ ret' = [ret EXCEPT ![t] = arg[t]]
    /\ lock' = None
    /\ committed' = arg[t]
    /\ pc' = [pc EXCEPT ![t] = "returned"]
    /\ UNCHANGED <<settings, file, op, arg, saveFailed, memBefore, expect, durable>>
    /\ UNCHANGED notStore

\* a caller enters get_threshold()
GetCall(t) ==
    /\ pc[t] = "idle"
    /\ pc' = [pc EXCEPT ![t] = "get_lock"]
    /\ op' = [op EXCEPT ![t] = "get"]
    /\ UNCHANGED <<settings, file, lock, arg, ret, saveFailed, memBefore, expect,
                   committed, durable>>
    /\ UNCHANGED notStore

\* mutant: get_threshold reads the dict without taking the lock
GetUnlocked(t) ==
    /\ pc[t] = "get_lock"
    /\ expect' = [expect EXCEPT ![t] = committed]
    /\ ret' = [ret EXCEPT ![t] = Threshold(settings)]
    /\ pc' = [pc EXCEPT ![t] = "returned"]
    /\ UNCHANGED <<settings, file, lock, op, arg, saveFailed, memBefore, committed, durable>>
    /\ UNCHANGED notStore

\* with self.lock: (get_threshold)
GetAcquire(t) ==
    /\ pc[t] = "get_lock"
    /\ lock = None
    /\ lock' = t
    /\ expect' = [expect EXCEPT ![t] = committed]
    /\ pc' = [pc EXCEPT ![t] = "get_read"]
    /\ UNCHANGED <<settings, file, op, arg, ret, saveFailed, memBefore, committed, durable>>
    /\ UNCHANGED notStore

\* return self.settings.get("temp_threshold", self.default_threshold)
GetReturn(t) ==
    /\ pc[t] = "get_read"
    /\ ret' = [ret EXCEPT ![t] = Threshold(settings)]
    /\ lock' = None
    /\ pc' = [pc EXCEPT ![t] = "returned"]
    /\ UNCHANGED <<settings, file, op, arg, saveFailed, memBefore, expect, committed, durable>>
    /\ UNCHANGED notStore

\* the caller has the returned value and goes on; the thread is free for
\* its next call
Resume(t) ==
    /\ pc[t] = "returned"
    /\ pc' = [pc EXCEPT ![t] = "idle"]
    /\ op' = [op EXCEPT ![t] = "none"]
    /\ arg' = [arg EXCEPT ![t] = None]
    /\ ret' = [ret EXCEPT ![t] = None]
    /\ saveFailed' = [saveFailed EXCEPT ![t] = FALSE]
    /\ memBefore' = [memBefore EXCEPT ![t] = None]
    /\ expect' = [expect EXCEPT ![t] = None]
    /\ UNCHANGED <<settings, file, lock, committed, durable>>
    /\ UNCHANGED notStore

\* no call is in progress
Quiescent == lock = None /\ \A t \in Threads : pc[t] \in {"idle", "returned"}

\* the process ends between calls and a new one constructs SettingsStore():
\* __init__ / _load_settings read the file
Restart ==
    /\ Quiescent
    /\ settings' = LoadSettings(file)
    /\ committed' = Threshold(LoadSettings(file))
    /\ pc' = [t \in Threads |-> "idle"]
    /\ op' = [t \in Threads |-> "none"]
    /\ arg' = [t \in Threads |-> None]
    /\ ret' = [t \in Threads |-> None]
    /\ saveFailed' = [t \in Threads |-> FALSE]
    /\ memBefore' = [t \in Threads |-> None]
    /\ expect' = [t \in Threads |-> None]
    /\ UNCHANGED <<file, lock, durable>>
    /\ UNCHANGED notStore

\* callers on any thread, concurrently
StoreNext ==
    \/ \E t \in Threads : \E value \in ThreshVals : SetCall(t, value)
    \/ \E t \in Threads : SetAcquire(t)
    \/ \E t \in Threads : SetAssign(t)
    \/ \E t \in Threads : SaveOpen(t)
    \/ \E t \in Threads : SaveDump(t)
    \/ \E t \in Threads : SetReturn(t)
    \/ \E t \in Threads : GetCall(t)
    \/ \E t \in Threads : GetAcquire(t)
    \/ \E t \in Threads : GetReturn(t)
    \/ \E t \in Threads : Resume(t)
    \/ Restart

SpecStore == StoreInit /\ [][StoreNext]_vars

\* one caller thread: the calls are sequential
StoreSeqNext ==
    \/ \E value \in ThreshVals : SetCall(1, value)
    \/ SetAcquire(1)
    \/ SetAssign(1)
    \/ SaveOpen(1)
    \/ SaveDump(1)
    \/ SetReturn(1)
    \/ GetCall(1)
    \/ GetAcquire(1)
    \/ GetReturn(1)
    \/ Resume(1)
    \/ Restart

SpecStoreSeq == StoreInit /\ [][StoreSeqNext]_vars

\* thread t is back from a call of the given kind
Back(t, kind) == pc[t] = "returned" /\ op[t] = kind

---------------------------------------------------------------------------
(* C7 *)

\* C7: set_threshold(v) returns v and leaves v as the in-memory threshold,
\* and with sequential calls a get_threshold returns the value of the last
\* set_threshold call (the value loaded at startup when there was none).
C7_ReadAfterWrite ==
    /\ Back(1, "set") => (ret[1] = arg[1] /\ Threshold(settings) = arg[1])
    /\ Back(1, "get") => ret[1] = committed

\* a get returned 2, the value of the last set, after an earlier set of 1
\* had been written to the file
C7_Witness ==
    /\ Back(1, "get")
    /\ ret[1] = 2
    /\ durable = 1
    /\ file.kind = "truncated"

---------------------------------------------------------------------------
(* C8 *)

\* C8 as stated: when the durable write of set_threshold(value) failed, the
\* in-memory threshold after the call is the one from before the call.
C8_FailedWriteKeepsMemory ==
    (Back(1, "set") /\ saveFailed[1]) => Threshold(settings) = memBefore[1]

---------------------------------------------------------------------------
(* C9 *)

\* C9: under every interleaving, a get_threshold returns the value of the set
\* that most recently released the lock before the get took it, or the value
\* loaded at startup when no set has completed; never that of a set still in
\* progress.
C9_GetSeesLastCompletedSet ==
    \A t \in Threads : Back(t, "get") => ret[t] = expect[t]

\* a get that waited while another thread's set was between its assignment
\* and its return, and then returned that set's value
C9_Witness ==
    \E t \in Threads : \E u \in Threads \ {t} :
        /\ Back(t, "get")
        /\ Back(u, "set")
        /\ ret[t] = arg[u]
        /\ ret[t] # default_threshold
        /\ file = FileAbsent

---------------------------------------------------------------------------
(* C10 *)

\* C10 as stated: between calls get_threshold() equals the last successfully
\* persisted value, or the default when none was ever written (so a set that
\* has returned is what a store constructed afterwards reads back).
C10_MemoryIsLastPersisted ==
    Quiescent =>
        Threshold(settings) = (IF durable = None THEN default_threshold ELSE durable)

---------------------------------------------------------------------------
(* save_temperature and the table temperature_records *)

\* model bounds: the table holds at most MaxHist rows (clear_database empties
\* it), the wall clock reads 0..MaxClock
MaxHist == 3

MaxClock == 1

\* the raw values a message carries for a sensor
PipeValues == {Sentinel, 5, 20, 25, 40}

\* TemperatureRecord(avg_temp1, avg_temp2) with its timestamp default
TemperatureRecord(now, temp1, temp2) ==
    [timestamp |-> now, avg_temp1 |-> temp1, avg_temp2 |-> temp2]

\* db.query(TemperatureRecord).order_by(TemperatureRecord.timestamp.desc())
\*   .limit(2).all(): the positions in the table of the rows returned, first
\* the greatest timestamp.  Rows with equal timestamps come in an order the
\* query does not fix: every order is a possible result.
RecentQueries(h) ==
    IF Len(h) = 0 THEN {<< >>}
    ELSE IF Len(h) = 1 THEN {<<1>>}
    ELSE {r \in {<<i, j>> : i \in DOMAIN h, j \in DOMAIN h} :
            /\ r[1] # r[2]
            /\ h[r[1]].timestamp >= h[r[2]].timestamp
            /\ \A k \in DOMAIN h \ {r[1], r[2]} : h[k].timestamp <= h[r[2]].timestamp}

\* mutant: sensor 2 is also replaced whenever sensor 1 was rejected
FilteredPairCoupled(h, recent, avg_temp1, avg_temp2) ==
    IF Len(recent) = 0
    THEN [final |-> <<avg_temp1, avg_temp2>>, rejected |-> <<FALSE, FALSE>>]
    ELSE
        LET prev_record == h[recent[1]]
            prev_prev_temp1 ==
                IF Len(recent) > 1 THEN h[recent[2]].avg_temp1 ELSE None
            prev_prev_temp2 ==
                IF Len(recent) > 1 THEN h[recent[2]].avg_temp2 ELSE None
            rejected1 ==
                ~is_valid_reading(avg_temp1, prev_record.avg_temp1, prev_prev_temp1)
            rejected2 ==
                \/ rejected1
                \/ ~is_valid_reading(avg_temp2, prev_record.avg_temp2, prev_prev_temp2)
        IN  [final |-> <<IF rejected1 THEN prev_record.avg_temp1 ELSE avg_temp1,
                         IF rejected2 THEN prev_record.avg_temp2 ELSE avg_temp2>>,
             rejected |-> <<rejected1, rejected2>>]

\* save_temperature, the block under "if apply_outlier_filter:": the pair to
\* store and, per sensor, whether is_valid_reading rejected the raw value
FilteredPair(h, recent, avg_temp1, avg_temp2) ==
    IF Len(recent) = 0
    THEN [final |-> <<avg_temp1, avg_temp2>>, rejected |-> <<FALSE, FALSE>>]
    ELSE
        LET prev_record == h[recent[1]]
            prev_prev_temp1 ==
                IF Len(recent) > 1 THEN h[recent[2]].avg_temp1 ELSE None
            prev_prev_temp2 ==
                IF Len(recent) > 1 THEN h[recent[2]].avg_temp2 ELSE None
            rejected1 ==
                ~is_valid_reading(avg_temp1, prev_record.avg_temp1, prev_prev_temp1)
            rejected2 ==
                ~is_valid_reading(avg_temp2, prev_record.avg_temp2, prev_prev_temp2)
        IN  [final |-> <<IF rejected1 THEN prev_record.avg_temp1 ELSE avg_temp1,
                         IF rejected2 THEN prev_record.avg_temp2 ELSE avg_temp2>>,
             rejected |-> <<rejected1, rejected2>>]

\* mutant: the flag is ignored and the filter always runs
DecisionAlwaysFilters(h, recent, avg_temp1, avg_temp2, apply_outlier_filter) ==
    FilteredPair(h, recent, avg_temp1, avg_temp2)

\* the pair save_temperature stores and the verdicts
Decision(h, recent, avg_temp1, avg_temp2, apply_outlier_filter) ==
    IF apply_outlier_filter
    THEN FilteredPair(h, recent, avg_temp1, avg_temp2)
    ELSE [final |-> <<avg_temp1, avg_temp2>>, rejected |-> <<FALSE, FALSE>>]

\* mutant: the row is put before the rows already there
InsertedFirst(h, now, final) ==
    <<TemperatureRecord(now, final[1], final[2])>> \o h

\* mutant: the row is added twice
InsertedTwice(h, now, final) ==
    Append(Append(h, TemperatureRecord(now, final[1], final[2])),
           TemperatureRecord(now, final[1], final[2]))

\* the table after db.add(record); db.commit().  now is datetime.now(BERLIN_TZ)
\* as the column stores it, the local wall-clock time without its offset: it
\* is not monotone (it repeats an hour when summer time ends, and the clock
\* can be set back), so any reading of the clock may follow any other.
Inserted(h, now, final) == Append(h, TemperatureRecord(now, final[1], final[2]))

\* save_temperature(avg_temp1, avg_temp2, apply_outlier_filter).  The row is
\* committed; the call to log_temperature_reading that follows the commit
\* names a function database.py does not import, so the call ends in the
\* except clause (rollback of nothing, re-raise) with NameError.
save_temperature(avg_temp1, avg_temp2, apply_outlier_filter, now, recent) ==
    /\ Len(hist) < MaxHist
    /\ LET d == Decision(hist, recent, avg_temp1, avg_temp2, apply_outlier_filter)
       IN  /\ hist' = Inserted(hist, now, d.final)
           /\ last' = [called |-> TRUE, raw |-> <<avg_temp1, avg_temp2>>,
                       filter |-> apply_outlier_filter, rejected |-> d.rejected,
                       outcome |-> "NameError"]
    /\ UNCHANGED pairVars
    /\ UNCHANGED notPipe

\* clear_database(): db.query(TemperatureRecord).delete()
clear_database ==
    /\ hist # << >>
    /\ hist' = << >>
    /\ last' = NoCall
    /\ UNCHANGED pairVars
    /\ UNCHANGED notPipe

PipeInit ==
    /\ hist = << >>
    /\ last = NoCall
    /\ histB = << >>
    /\ varied = 1
    /\ FilterOff
    /\ StoreOff
    /\ SubOff
    /\ MsgOff

Next ==
    \/ \E recent \in RecentQueries(hist) :
       \E avg_temp1 \in PipeValues, avg_temp2 \in PipeValues :
       \E apply_outlier_filter \in BOOLEAN, now \in 0..MaxClock :
            save_temperature(avg_temp1, avg_temp2, apply_outlier_filter, now, recent)
    \/ clear_database

Spec == PipeInit /\ [][Next]_vars

\* the value a row holds for a sensor
Temp(r, sensor) == IF sensor = 1 THEN r.avg_temp1 ELSE r.avg_temp2

---------------------------------------------------------------------------
(* C5 *)

\* C5 as stated: when save_temperature, filtering, had is_valid_reading reject
\* a sensor's raw value, the row it appended holds for that sensor the value
\* of the row appended just before it (the most recently stored Reading).
C5_SubstitutesLastStored ==
    \A sensor \in {1, 2} :
        (last.called /\ last.filter /\ last.rejected[sensor])
            => /\ Len(hist) >= 2
               /\ Temp(hist[Len(hist)], sensor) = Temp(hist[Len(hist) - 1], sensor)

---------------------------------------------------------------------------
(* Two runs of the pipeline side by side.  Both get the same clock readings,
   the same query order and the same raw values for one sensor; the raw values
   of the other sensor (varied) are chosen freely in each run. *)

\* the raw values the two runs draw for the varied sensor
VariedValues == {Sentinel, 5, 20}

\* the message of a run: raw value own for the varied sensor, common for the other
Message(own, common) == IF varied = 1 THEN <<own, common>> ELSE <<common, own>>

\* on_message in both runs: save_temperature(avg_temp1, avg_temp2,
\* apply_outlier_filter=True)
PairSave(common, ownA, ownB, now, recent) ==
    /\ Len(hist) < MaxHist
    /\ LET msgA == Message(ownA, common)
           msgB == Message(ownB, common)
           apply_outlier_filter == TRUE
           dA == Decision(hist, recent, msgA[1], msgA[2], apply_outlier_filter)
           dB == Decision(histB, recent, msgB[1], msgB[2], apply_outlier_filter)
       IN  /\ hist' = Inserted(hist, now, dA.final)
           /\ histB' = Inserted(histB, now, dB.final)
    /\ UNCHANGED <<last, varied>>
    /\ UNCHANGED notPipe

\* clear_database in both runs
PairClear ==
    /\ hist # << >>
    /\ hist' = << >>
    /\ histB' = << >>
    /\ UNCHANGED <<last, varied>>
    /\ UNCHANGED notPipe

PairInit ==
    /\ hist = << >>
    /\ last = NoCall
    /\ histB = << >>
    /\ varied \in {1, 2}
    /\ FilterOff
    /\ StoreOff
    /\ SubOff
    /\ MsgOff

PairNext ==
    \/ \E recent \in RecentQueries(hist) :
       \E common \in PipeValues, ownA \in VariedValues, ownB \in VariedValues :
       \E now \in 0..MaxClock :
            PairSave(common, ownA, ownB, now, recent)
    \/ PairClear

SpecPair == PairInit /\ [][PairNext]_vars

---------------------------------------------------------------------------
(* C6 *)

\* C6: the value save_temperature stores for a sensor depends only on that
\* sensor's raw value and that sensor's values in the two rows the query
\* returns: two runs that agree on one sensor's raw values and differ freely
\* in the other sensor's store the same values for the first.
C6_SensorsIndependent ==
    /\ Len(hist) = Len(histB)
    /\ \A k \in DOMAIN hist :
        Temp(hist[k], 3 - varied) = Temp(histB[k], 3 - varied)

\* the column of a sensor in a table
Column(h, sensor) == [k \in DOMAIN h |-> Temp(h[k], sensor)]

\* the varied sensor ended 20, 20, 20 in one run (with a raw value replaced)
\* and -999, -999, 5 in the other, while the other sensor's rising drift
\* 20, 25, 40 was stored in both
C6_Witness ==
    /\ Column(hist, varied) = <<20, 20, 20>>
    /\ Column(histB, varied) = <<Sentinel, Sentinel, 5>>
    /\ Column(hist, 3 - varied) = <<20, 25, 40>>
    /\ varied = 1

---------------------------------------------------------------------------
(* Harness for the pure function: every argument triple, then one call *)

FilterInit ==
    /\ fPc = "call"
    /\ fNew \in Values
    /\ fPrev \in OptValues
    /\ fPrevPrev \in OptValues
    /\ fResult = FALSE
    /\ StoreOff
    /\ PipeOff
    /\ SubOff
    /\ MsgOff

Decide ==
    /\ fPc = "call"
    /\ fResult' = is_valid_reading(fNew, fPrev, fPrevPrev)
    /\ fPc' = "return"
    /\ UNCHANGED <<fNew, fPrev, fPrevPrev>>
    /\ UNCHANGED notFilter

FilterNext == Decide

SpecFilter == FilterInit /\ [][FilterNext]_vars

Returned == fPc = "return"

PrevPresent == fPrev # None /\ fPrev # Sentinel

PrevPrevPresent == fPrevPrev # None /\ fPrevPrev # Sentinel

\* |new/prev - 1| <= 0.25, for prev > 0
WithinQuarter == 3 * fPrev <= 4 * fNew /\ 4 * fNew <= 5 * fPrev

---------------------------------------------------------------------------
(* C1 *)

\* C1 as stated: for every prev > 10 and every new with |new/prev - 1| <= 0.25
\* is_valid_reading accepts, for every prev_prev including None.
C1_BandAcceptsAll ==
    (Returned /\ fPrev # None /\ fPrev > 10 /\ WithinQuarter) => fResult

\* C1 amended: for every prev > 10 and every new >= min_temp with
\* |new/prev - 1| <= 0.25 is_valid_reading accepts, for every prev_prev
\* including None.
C1_BandAcceptsAboveFloor ==
    (Returned /\ fPrev # None /\ fPrev > 10 /\ WithinQuarter /\ fNew >= min_temp)
        => fResult

\* a call on the edge of the band, with no prev_prev, that returned
C1_Witness ==
    Returned /\ fPrev = 20 /\ fNew = 15 /\ fPrevPrev = None /\ fResult

---------------------------------------------------------------------------
(* C2 *)

\* C2 as stated: every new < 10.0 other than -999.0 is rejected for every
\* prev, None and -999.0 included.
C2_FloorRejectsAll ==
    (Returned /\ fNew < min_temp /\ fNew # Sentinel) => ~fResult

\* C2 amended: every new < 10.0 other than -999.0 is rejected for every prev
\* that is present and not -999.0, whatever prev_prev and the trend are.
C2_FloorRejectsWithPrev ==
    (Returned /\ fNew < min_temp /\ fNew # Sentinel /\ PrevPresent) => ~fResult

\* a value under the floor that is inside the band of prev, rejected
C2_Witness ==
    Returned /\ fNew = 9 /\ fPrev = 12 /\ fPrevPrev = 14 /\ ~fResult

---------------------------------------------------------------------------
(* C3 *)

\* C3: with prev and prev_prev present and not -999.0, new not -999.0,
\* new >= min_temp and new outside [prev*0.75, prev*1.25], the call accepts
\* exactly when prev - prev_prev and new - prev are both > 0 or both < 0;
\* (100, 90, 60) is accepted, (100, 110, 60) is rejected, and a zero previous
\* trend rejects.
C3_TrendException ==
    /\ (Returned /\ PrevPresent /\ PrevPrevPresent /\ fNew # Sentinel
            /\ fNew >= min_temp /\ ~WithinQuarter)
        => (fResult <=>
                \/ (fPrev - fPrevPrev > 0 /\ fNew - fPrev > 0)
                \/ (fPrev - fPrevPrev < 0 /\ fNew - fPrev < 0))
    /\ (Returned /\ fPrevPrev = 100 /\ fPrev = 90 /\ fNew = 60) => fResult
    /\ (Returned /\ fPrevPrev = 100 /\ fPrev = 110 /\ fNew = 60) => ~fResult
    /\ (Returned /\ PrevPresent /\ fPrevPrev = fPrev /\ fNew # Sentinel
            /\ fNew >= min_temp /\ ~WithinQuarter) => ~fResult

\* the falling drift 100, 90, 60 was accepted
C3_Witness ==
    Returned /\ fPrevPrev = 100 /\ fPrev = 90 /\ fNew = 60 /\ fResult

---------------------------------------------------------------------------
(* C4 *)

\* C4: is_valid_reading accepts whenever prev is None or -999.0 (for every
\* new, also below min_temp, and every prev_prev) and whenever new is -999.0.
C4_SentinelPassthrough ==
    (Returned /\ (fPrev = None \/ fPrev = Sentinel \/ fNew = Sentinel)) => fResult

\* a value under the floor accepted because prev is the sentinel
C4_Witness ==
    Returned /\ fPrev = Sentinel /\ fNew = 5 /\ fPrevPrev = 80 /\ fResult

---------------------------------------------------------------------------
(* Messages, the loop body of _listen_loop and the callback on_message *)

\* a field holding the JSON string "bad": float("bad") raises ValueError
StrBad == -200000

\* a field holding the JSON string "20": float("20") is 20.0
StrTwenty == -200020

\* the field values that are not numbers
Strings == {StrBad, StrTwenty}

\* a field of the decoded message as data.get returns it: a number, the
\* sentinel, a string, or None when the key is missing (or null)
FieldValues == PipeValues \cup Strings \cup {None}

\* message["data"]: text json.loads rejects, or a JSON object
Payloads ==
    {Undecodable} \cup
    [decodable : {TRUE}, avg_temp1 : FieldValues, avg_temp2 : FieldValues]

\* a failure of the backing store during one message: none, the query
\* raising, or the commit raising
Faults == {"none", "read", "append"}

\* mutant: one field is enough
PresentEither(avg_temp1, avg_temp2) == avg_temp1 # None \/ avg_temp2 # None

\* on_message: avg_temp1 is not None and avg_temp2 is not None
Present(avg_temp1, avg_temp2) == avg_temp1 # None /\ avg_temp2 # None

\* is_valid_reading raises TypeError: it reaches new_value < min_temp, and
\* new_value is a str
ComparisonRaises(new_value, prev_value) ==
    /\ new_value \in Strings
    /\ prev_value # None
    /\ prev_value # Sentinel

\* one of the two is_valid_reading calls of save_temperature raises
FilterRaises(h, recent, avg_temp1, avg_temp2) ==
    /\ Len(recent) > 0
    /\ \/ ComparisonRaises(avg_temp1, h[recent[1]].avg_temp1)
       \/ ComparisonRaises(avg_temp2, h[recent[1]].avg_temp2)

\* the Float column binds its parameter with float(value): a str that reads
\* as a number is stored as that number
to_float(value) == IF value = StrTwenty THEN 20 ELSE value

\* float(value) raises ValueError
FloatRaises(value) == value = StrBad

\* save_temperature(avg_temp1, avg_temp2, apply_outlier_filter=True) as
\* on_message calls it, for any field values: the table afterwards, the
\* verdicts, and the exception the call ends with.  After a commit that is
\* NameError (log_temperature_reading is not imported in database.py).
SaveResult(h, avg_temp1, avg_temp2, now, recent, fault) ==
    LET nothing == <<FALSE, FALSE>>
    IN  IF fault = "read"
        THEN [hist |-> h, rejected |-> nothing, raised |-> "OperationalError"]
        ELSE IF FilterRaises(h, recent, avg_temp1, avg_temp2)
        THEN [hist |-> h, rejected |-> nothing, raised |-> "TypeError"]
        ELSE
            LET d == Decision(h, recent, avg_temp1, avg_temp2, TRUE)
            IN  IF FloatRaises(d.final[1]) \/ FloatRaises(d.final[2])
                THEN [hist |-> h, rejected |-> d.rejected,
                      raised |-> "StatementError"]
                ELSE IF fault = "append"
                THEN [hist |-> h, rejected |-> d.rejected,
                      raised |-> "OperationalError"]
                ELSE [hist |-> Inserted(h, now, <<to_float(d.final[1]),
                                                  to_float(d.final[2])>>),
                      rejected |-> d.rejected, raised |-> "NameError"]

\* mutant: the callback handles no exception
OnMessageHandlesNothing(exc) == FALSE

\* on_message: "except Exception as e" handles every exception of its body
on_message_handles(exc) == TRUE

\* on_message(data): the table afterwards, how the message ended, and the
\* exception that leaves the callback ("none" when it returns)
on_message(h, data, now, recent, fault) ==
    IF ~Present(data.avg_temp1, data.avg_temp2)
    THEN [hist |-> h, rejected |-> <<FALSE, FALSE>>, outcome |-> "skipped",
          raised |-> "none"]
    ELSE
        LET r == SaveResult(h, data.avg_temp1, data.avg_temp2, now, recent, fault)
        IN  [hist |-> r.hist, rejected |-> r.rejected, outcome |-> r.raised,
             raised |-> IF on_message_handles(r.raised) THEN "none" ELSE r.raised]

\* mutant: the loop body handles no exception
LoopHandlesNothing(exc) == FALSE

\* _listen_loop: "except json.JSONDecodeError" and "except Exception" around
\* the body handle every exception of json.loads and of the callback
loop_handles(exc) == TRUE

\* the body of the for loop for one message of type "message", running being
\* true: json.loads, then the callback.  escaped: an exception left the body.
LoopBody(h, payload, now, recent, fault) ==
    IF ~payload.decodable
    THEN [hist |-> h, rejected |-> <<FALSE, FALSE>>,
          outcome |-> "JSONDecodeError",
          escaped |-> ~loop_handles("JSONDecodeError")]
    ELSE
        LET r == on_message(h, payload, now, recent, fault)
        IN  [hist |-> r.hist, rejected |-> r.rejected, outcome |-> r.outcome,
             escaped |-> r.raised # "none" /\ ~loop_handles(r.raised)]

---------------------------------------------------------------------------
(* RedisSubscriber: start(), stop() and the worker thread in _listen_loop.
   start() and stop() are called by one caller (the lifespan handler), one
   after the other; the workers run concurrently with it. *)

\* the payloads the channel carries in this specification: undecodable text
\* and a pair of temperatures
SubPayloads ==
    {Undecodable,
     [decodable |-> TRUE, avg_temp1 |-> 20, avg_temp2 |-> 20]}

\* the clock stands still in the specification of the loop: rows with equal
\* timestamps come back from the query in any order, which covers every order
\* of rows that other clock readings can produce
SubClock == {0}

\* the worker ids start() has not used yet
Unborn == {w \in Workers : wpc[w] = "unborn"}

\* the Thread object start() creates next
NextWorker == CHOOSE w \in Unborn : \A v \in Unborn : w <= v

\* mutant: start() does not look at the running flag
StartIgnoresRunning == FALSE

\* start(): "if self.running:"
StartSeesRunning == running

\* start(), running already true: warning, return
StartAlreadyRunning ==
    /\ ctl = "idle"
    /\ StartSeesRunning
    /\ lastCall' = "start_noop"
    /\ UNCHANGED <<running, redis_client, pubsub, thread, pubsubClosed, unsubscribed,
                   pinged,
                   wpc, wcur, wexit, ctl, joined>>
    /\ UNCHANGED <<hist, msgVars>>
    /\ UNCHANGED notSub

\* start(), no client yet, connect() returns False: redis.Redis(...) was
\* assigned to self.redis_client before ping() raised
StartConnectFails ==
    /\ ctl = "idle"
    /\ ~StartSeesRunning
    /\ redis_client = None
    /\ redis_client' = Client
    /\ lastCall' = "start_failed"
    /\ UNCHANGED <<running, pubsub, thread, pubsubClosed, unsubscribed, pinged, wpc, wcur,
                   wexit, ctl, joined>>
    /\ UNCHANGED <<hist, msgVars>>
    /\ UNCHANGED notSub

\* start(), a client is there or connect() returns True: running is set and
\* the thread is created and started
StartSpawns ==
    /\ ctl = "idle"
    /\ ~StartSeesRunning
    /\ Unborn # {}
    /\ redis_client' = Client
    /\ pinged' = (pinged \/ redis_client = None)
    /\ running' = TRUE
    /\ thread' = NextWorker
    /\ wpc' = [wpc EXCEPT ![NextWorker] = "start"]
    /\ lastCall' = "start_spawned"
    /\ UNCHANGED <<pubsub, pubsubClosed, unsubscribed, wcur, wexit, ctl, joined>>
    /\ UNCHANGED <<hist, msgVars>>
    /\ UNCHANGED notSub

\* start(); ping: redis_client.ping() succeeds if connect() is called
start(ping) ==
    \/ StartAlreadyRunning
    \/ (~ping /\ StartConnectFails)
    \/ ((ping \/ redis_client # None) /\ StartSpawns)

\* stop(): self.running = False; "if self.thread:" chooses the join
StopBegin ==
    /\ ctl = "idle"
    /\ running' = FALSE
    /\ joined' = "none"
    /\ ctl' = IF thread # None THEN "join" ELSE "close"
    /\ UNCHANGED <<redis_client, pubsub, thread, pubsubClosed, unsubscribed, pinged, wpc, wcur,
                   wexit, lastCall>>
    /\ UNCHANGED <<hist, msgVars>>
    /\ UNCHANGED notSub

\* mutant: the join has no timeout
StopJoinUnbounded ==
    /\ ctl = "join"
    /\ wpc[thread] = "dead"
    /\ joined' = "exited"
    /\ ctl' = "close"
    /\ UNCHANGED <<running, redis_client, pubsub, thread, pubsubClosed, unsubscribed,
                   pinged,
                   wpc, wcur, wexit, lastCall>>
    /\ UNCHANGED <<hist, msgVars>>
    /\ UNCHANGED notSub

\* stop(): self.thread.join(timeout=5) returns, the worker having ended or
\* the five seconds having passed
StopJoin ==
    /\ ctl = "join"
    /\ joined' = IF wpc[thread] = "dead" THEN "exited" ELSE "timeout"
    /\ ctl' = "close"
    /\ UNCHANGED <<running, redis_client, pubsub, thread, pubsubClosed, unsubscribed,
                   pinged,
                   wpc, wcur, wexit, lastCall>>
    /\ UNCHANGED <<hist, msgVars>>
    /\ UNCHANGED notSub

\* stop(): "if self.pubsub: self.pubsub.close()", "if self.redis_client:
\* self.redis_client.close()", return
StopClose ==
    /\ ctl = "close"
    /\ pubsubClosed' = IF pubsub # None
                       THEN [pubsubClosed EXCEPT ![pubsub] = TRUE]
                       ELSE pubsubClosed
    /\ UNCHANGED unsubscribed
    /\ ctl' = "idle"
    /\ lastCall' = "stop"
    /\ UNCHANGED <<running, redis_client, pubsub, thread, pinged, wpc, wcur,
                   wexit, joined>>
    /\ UNCHANGED <<hist, msgVars>>
    /\ UNCHANGED notSub

\* _listen_loop: self.pubsub = self.redis_client.pubsub();
\* self.pubsub.subscribe(self.channel).  ok: subscribe did not raise.
WorkerSubscribe(w, ok) ==
    /\ wpc[w] = "start"
    /\ pubsub' = w
    /\ pubsubClosed' = [pubsubClosed EXCEPT ![w] = FALSE]
    /\ unsubscribed' = [unsubscribed EXCEPT ![w] = FALSE]
    /\ wpc' = [wpc EXCEPT ![w] = IF ok THEN "listen" ELSE "finally"]
    /\ wexit' = [wexit EXCEPT ![w] = IF ok THEN "none" ELSE "error"]
    /\ UNCHANGED <<running, redis_client, thread, pinged, wcur, ctl, joined,
                   lastCall>>
    /\ UNCHANGED <<hist, msgVars>>
    /\ UNCHANGED notSub

\* _listen_loop: listen() yields a message.  "if not self.running: break";
\* a message whose type is not "message" is passed over; otherwise the body
\* runs for its payload.
TakeMessage(w, type, payload) ==
    /\ wpc[w] = "listen"
    /\ ~pubsubClosed[w]
    /\ ~unsubscribed[w]
    /\ IF ~running
       THEN /\ wpc' = [wpc EXCEPT ![w] = "finally"]
            /\ wexit' = [wexit EXCEPT ![w] = "break"]
            /\ UNCHANGED wcur
       ELSE IF type # "message"
       THEN UNCHANGED <<wpc, wexit, wcur>>
       ELSE /\ Len(hist) < MaxHist
            /\ wpc' = [wpc EXCEPT ![w] = "process"]
            /\ wcur' = [wcur EXCEPT ![w] = payload]
            /\ UNCHANGED wexit
    /\ UNCHANGED <<running, redis_client, pubsub, thread, pubsubClosed, unsubscribed,
                   pinged,
                   ctl, joined, lastCall>>
    /\ UNCHANGED hist
    /\ UNCHANGED notSub

\* the worker takes a message; nothing is recorded about it
WorkerTake(w, type, payload) ==
    /\ TakeMessage(w, type, payload)
    /\ UNCHANGED msgVars

\* how the body ended for a message, as the log tells it: the exception
\* handled, "skipped" for a missing field, and for a row appended "replaced"
\* when the filter replaced a raw value, "stored" when it did not
Ending(r) ==
    IF r.outcome # "NameError" THEN r.outcome
    ELSE IF r.rejected[1] \/ r.rejected[2] THEN "replaced"
    ELSE "stored"

\* _listen_loop: the body of the loop for the message taken: json.loads and
\* asyncio.run(on_message(data)), inside "try ... except"
RunBody(w, now, recent, fault) ==
    /\ wpc[w] = "process"
    /\ LET r == LoopBody(hist, wcur[w], now, recent, fault)
       IN  /\ hist' = r.hist
           /\ wpc' = [wpc EXCEPT ![w] = IF r.escaped THEN "finally" ELSE "listen"]
           /\ wexit' = [wexit EXCEPT ![w] = IF r.escaped THEN "escaped" ELSE "none"]
    /\ wcur' = [wcur EXCEPT ![w] = Undecodable]
    /\ UNCHANGED <<running, redis_client, pubsub, thread, pubsubClosed, unsubscribed,
                   pinged,
                   ctl, joined, lastCall>>
    /\ UNCHANGED notSub

\* the worker runs the body; nothing is recorded about the message
WorkerProcess(w, now, recent, fault) ==
    /\ RunBody(w, now, recent, fault)
    /\ UNCHANGED msgVars

\* _listen_loop: listen() raises (the connection died, or the PubSub object
\* was closed under the worker): "except Exception" of the outer try
TransportError(w) ==
    /\ wpc[w] = "listen"
    /\ wpc' = [wpc EXCEPT ![w] = "finally"]
    /\ wexit' = [wexit EXCEPT ![w] = "error"]
    /\ UNCHANGED <<running, redis_client, pubsub, thread, pubsubClosed, unsubscribed,
                   pinged,
                   wcur, ctl, joined, lastCall>>
    /\ UNCHANGED <<hist, msgVars>>
    /\ UNCHANGED notSub

\* _listen_loop: listen() ends, the PubSub object having no subscription
\* left: the for loop is left without an exception
ListenEnds(w) ==
    /\ wpc[w] = "listen"
    /\ unsubscribed[w]
    /\ wpc' = [wpc EXCEPT ![w] = "finally"]
    /\ wexit' = [wexit EXCEPT ![w] = "end"]
    /\ UNCHANGED <<running, redis_client, pubsub, thread, pubsubClosed, unsubscribed,
                   pinged, wcur, ctl, joined, lastCall>>
    /\ UNCHANGED <<hist, msgVars>>
    /\ UNCHANGED notSub

\* _listen_loop: "finally: if self.pubsub: self.pubsub.unsubscribe(...)";
\* the thread ends
WorkerFinally(w) ==
    /\ wpc[w] = "finally"
    /\ unsubscribed' = IF pubsub # None
                       THEN [unsubscribed EXCEPT ![pubsub] = TRUE]
                       ELSE unsubscribed
    /\ wpc' = [wpc EXCEPT ![w] = "dead"]
    /\ UNCHANGED <<running, redis_client, pubsub, thread, pubsubClosed, pinged,
                   wcur, wexit, ctl, joined, lastCall>>
    /\ UNCHANGED <<hist, msgVars>>
    /\ UNCHANGED notSub

SubInit ==
    /\ running = FALSE
    /\ redis_client = None
    /\ pubsub = None
    /\ thread = None
    /\ pubsubClosed = [w \in Workers |-> FALSE]
    /\ unsubscribed = [w \in Workers |-> FALSE]
    /\ pinged = FALSE
    /\ wpc = [w \in Workers |-> "unborn"]
    /\ wcur = [w \in Workers |-> Undecodable]
    /\ wexit = [w \in Workers |-> "none"]
    /\ ctl = "idle"
    /\ joined = "none"
    /\ lastCall = "none"
    /\ hist = << >>
    /\ last = NoCall
    /\ histB = << >>
    /\ varied = 1
    /\ MsgOff
    /\ FilterOff
    /\ StoreOff

SubNext ==
    \/ \E ping \in BOOLEAN : start(ping)
    \/ StopBegin
    \/ StopJoin
    \/ StopClose
    \/ \E w \in Workers, ok \in BOOLEAN : WorkerSubscribe(w, ok)
    \/ \E w \in Workers, type \in {"subscribe", "message"}, payload \in SubPayloads :
            WorkerTake(w, type, payload)
    \/ \E recent \in RecentQueries(hist) :
       \E w \in Workers, fault \in Faults :
            WorkerProcess(w, Len(hist), recent, fault)
    \/ \E w \in Workers : TransportError(w)
    \/ \E w \in Workers : ListenEnds(w)
    \/ \E w \in Workers : WorkerFinally(w)

SpecSub == SubInit /\ [][SubNext]_vars

\* the subscriber with a channel that carries undecodable text only: the table
\* stays as it is, the calls and the workers take every step they take in
\* SubNext
SubQuietNext ==
    \/ \E ping \in BOOLEAN : start(ping)
    \/ StopBegin
    \/ StopJoin
    \/ StopClose
    \/ \E w \in Workers, ok \in BOOLEAN : WorkerSubscribe(w, ok)
    \/ \E w \in Workers, type \in {"subscribe", "message"} :
            WorkerTake(w, type, Undecodable)
    \/ \E recent \in RecentQueries(hist) :
       \E w \in Workers, fault \in Faults :
            WorkerProcess(w, Len(hist), recent, fault)
    \/ \E w \in Workers : TransportError(w)
    \/ \E w \in Workers : ListenEnds(w)
    \/ \E w \in Workers : WorkerFinally(w)

\* stop() is run by its caller to the end: the join is bounded and the two
\* close() calls return
SpecSubFair ==
    SubInit /\ [][SubQuietNext]_vars /\ WF_vars(StopJoin) /\ WF_vars(StopClose)

---------------------------------------------------------------------------
(* One worker in its loop, running staying true, with every payload; what
   each message was and how it ended is recorded in lastMsg. *)

\* the field values of this specification
LoopFields == {None, StrBad, StrTwenty, Sentinel, 5, 20}

LoopPayloads ==
    {Undecodable} \cup
    [decodable : {TRUE}, avg_temp1 : LoopFields, avg_temp2 : LoopFields]

\* the message ended without a row holding its raw values
Failed(ending) == ending \notin {"none", "stored"}

\* the worker takes a message.  Of the message before, it is remembered only
\* whether it failed.
LoopTake(w, type, payload) ==
    /\ TakeMessage(w, type, payload)
    /\ lastMsg' = IF type = "message"
                  THEN [NoMsg EXCEPT !.afterFailure = Failed(lastMsg.outcome)]
                  ELSE lastMsg
    /\ UNCHANGED raws

\* the worker runs the body for the message taken
LoopProcess(w, now, recent, fault) ==
    /\ RunBody(w, now, recent, fault)
    /\ lastMsg' = [delivered |-> TRUE, payload |-> wcur[w],
                   outcome |-> Ending(LoopBody(hist, wcur[w], now, recent, fault)),
                   afterFailure |-> lastMsg.afterFailure]
    /\ UNCHANGED raws

\* start() has connected and spawned the worker
LoopInit ==
    /\ running = TRUE
    /\ redis_client = Client
    /\ pubsub = None
    /\ thread = 1
    /\ pubsubClosed = [w \in Workers |-> FALSE]
    /\ unsubscribed = [w \in Workers |-> FALSE]
    /\ pinged = TRUE
    /\ wpc = [w \in Workers |-> IF w = 1 THEN "start" ELSE "unborn"]
    /\ wcur = [w \in Workers |-> Undecodable]
    /\ wexit = [w \in Workers |-> "none"]
    /\ ctl = "idle"
    /\ joined = "none"
    /\ lastCall = "start_spawned"
    /\ hist = << >>
    /\ last = NoCall
    /\ histB = << >>
    /\ varied = 1
    /\ MsgOff
    /\ FilterOff
    /\ StoreOff

LoopNext ==
    \/ \E w \in Workers, ok \in BOOLEAN : WorkerSubscribe(w, ok)
    \/ \E w \in Workers, type \in {"subscribe", "message"}, payload \in LoopPayloads :
            LoopTake(w, type, payload)
    \/ \E recent \in RecentQueries(hist) :
       \E w \in Workers, now \in SubClock, fault \in Faults :
            LoopProcess(w, now, recent, fault)
    \/ \E w \in Workers : TransportError(w)
    \/ \E w \in Workers : WorkerFinally(w)

SpecLoop == LoopInit /\ [][LoopNext]_vars

\* the worker w has just run the body for the message it had taken
Processed(w) == wpc[w] = "process" /\ wpc'[w] # "process"

\* a field that is present and not a number
NonNumeric(v) == v \in Strings

\* a field holding a number (the sentinel -999.0 is one)
Numeric(v) == v # None /\ v \notin Strings

---------------------------------------------------------------------------
(* C11 *)

\* C11 as stated: when the worker start() spawned last has left the loop
\* through a transport error and ended, the running flag is false (the
\* controller is Idle), so that the next start() spawns a worker.
C11_ErrorExitLeavesIdle ==
    (thread # None /\ wpc[thread] = "dead" /\ wexit[thread] = "error")
        => ~running

---------------------------------------------------------------------------
(* C12 *)

\* C12 as stated: a start() whose connection attempt failed has left running
\* false, and whenever the controller is Listening (running true, a worker
\* spawned) a ping has succeeded.
C12_ConnectionGatesListening ==
    /\ lastCall = "start_failed" => ~running
    /\ (running /\ thread # None) => pinged

---------------------------------------------------------------------------
(* C13 *)

\* C13 as stated: the body run for a decoded message in which avg_temp1 or
\* avg_temp2 is present but not a number appends no row, whatever the table
\* holds.
C13_NonNumericDiscarded ==
    [][\A w \in Workers :
          (/\ Processed(w)
           /\ wcur[w].decodable
           /\ (NonNumeric(wcur[w].avg_temp1) \/ NonNumeric(wcur[w].avg_temp2)))
            => hist' = hist]_vars

---------------------------------------------------------------------------
(* C14 *)

\* C14: the body run for a payload json.loads rejects, or for a decoded
\* message without avg_temp1 or without avg_temp2, leaves the table as it was.
C14_MalformedDropped ==
    [][\A w \in Workers :
          (/\ Processed(w)
           /\ \/ ~wcur[w].decodable
              \/ wcur[w].avg_temp1 = None
              \/ wcur[w].avg_temp2 = None)
            => hist' = hist]_vars

\* {"avg_temp1": "bad"} was skipped while the table held rows
C14_Witness ==
    /\ lastMsg.delivered
    /\ lastMsg.payload = [decodable |-> TRUE, avg_temp1 |-> StrBad, avg_temp2 |-> None]
    /\ lastMsg.outcome = "skipped"
    /\ Len(hist) = 2

---------------------------------------------------------------------------
(* C15 *)

\* C15: whatever the message and however its processing ends (undecodable,
\* field missing, value replaced by the filter, query or commit raising), the
\* body step returns the worker to the receive loop, and no worker ever leaves
\* the loop through an exception of the body; a message with two numeric
\* fields whose store operations do not fail appends its row, also right
\* after a message that failed.
C15_LoopSurvives ==
    /\ [](\A w \in Workers : wexit[w] # "escaped")
    /\ [][\A w \in Workers :
            Processed(w) =>
                /\ wpc'[w] = "listen"
                /\ (/\ wcur[w].decodable
                    /\ Numeric(wcur[w].avg_temp1)
                    /\ Numeric(wcur[w].avg_temp2)
                    /\ lastMsg'.outcome # "OperationalError")
                    => Len(hist') = Len(hist) + 1]_vars

\* the first row of the table was stored by the worker right after a message
\* that failed, and the worker is back in the receive loop
C15_Witness ==
    /\ lastMsg.delivered
    /\ lastMsg.afterFailure
    /\ lastMsg.outcome = "stored"
    /\ Len(hist) = 1
    /\ wpc[1] = "listen"

---------------------------------------------------------------------------
(* C16 *)

\* C16 as stated: stop() closes the subscription before or during the join
\* of the worker: when the join returns and a PubSub object exists, it has
\* been closed.
C16_ClosedByEndOfJoin ==
    [][(ctl = "join" /\ ctl' = "close" /\ pubsub # None)
          => pubsubClosed[pubsub]]_vars

---------------------------------------------------------------------------
(* C17 *)

\* C17: a stop() that has begun returns, in whatever state the subscriber
\* and its workers are, and when it returns the running flag is false.
C17_StopSettles ==
    /\ (ctl # "idle") ~> (ctl = "idle")
    /\ [][(ctl = "close" /\ ctl' = "idle") => ~running']_vars

\* stop() has returned after its join timed out, the worker still being in
\* the middle of a message
C17_Witness ==
    /\ ctl = "idle"
    /\ lastCall = "stop"
    /\ joined = "timeout"
    /\ wpc[thread] = "process"
    /\ ~running

---------------------------------------------------------------------------
(* C18 *)

\* C18: a start() called while running is true returns through the
\* "already running" branch: it does not call connect(), spawns no worker and
\* leaves redis_client, pubsub, thread and running as they were.
C18_StartWhileRunningNoop ==
    [][(running /\ \E ping \in BOOLEAN : start(ping))
          => /\ lastCall' = "start_noop"
             /\ UNCHANGED <<redis_client, pubsub, thread, running, wpc, pinged>>]_vars

\* start() was called, and returned at once, while the worker was listening
C18_Witness ==
    /\ lastCall = "start_noop"
    /\ running
    /\ wpc[thread] = "listen"
    /\ Unborn # {}

---------------------------------------------------------------------------
(* C19 *)

\* C19: the body run for one message appends at most one row and changes no
\* row already there; for a message with two numeric fields, the query and
\* the commit not raising, it appends exactly one.
C19_OneReadingPerMessage ==
    [][\A w \in Workers :
          Processed(w) =>
            /\ \/ hist' = hist
               \/ /\ Len(hist') = Len(hist) + 1
                  /\ SubSeq(hist', 1, Len(hist)) = hist
            /\ (/\ wcur[w].decodable
                /\ Numeric(wcur[w].avg_temp1)
                /\ Numeric(wcur[w].avg_temp2)
                /\ lastMsg'.outcome # "OperationalError")
                => hist' # hist]_vars

\* the message (20, 5) became the third row of the table, its second value
\* replaced by the filter
C19_Witness ==
    /\ lastMsg.delivered
    /\ lastMsg.payload = [decodable |-> TRUE, avg_temp1 |-> 20, avg_temp2 |-> 5]
    /\ lastMsg.outcome = "replaced"
    /\ Len(hist) = 3
    /\ hist[3].avg_temp1 = 20
    /\ hist[3].avg_temp2 = 20

---------------------------------------------------------------------------
(* A drift: a stream of messages in which the raw values of sensor 1 keep
   moving strictly in one direction.  The clock advances from message to
   message, so the query returns the last two rows inserted. *)

\* model bound: the stream has at most MaxDrift messages
MaxDrift == 5

\* the raw values of the drifting sensor: none below min_temp, none -999.0
DriftValues == {10, 20, 24, 40, 60, 70, 100}

\* the raw value of the other sensor, the same in every message
Steady == 20

\* value continues the stream raws strictly in the direction it has taken
Continues(value) ==
    LET n == Len(raws)
    IN  /\ n >= 1 => value # raws[n]
        /\ n >= 2 => ((value > raws[n]) <=> (raws[n] > raws[n - 1]))

\* the loop body for the next message of the drift
DriftMessage(value, recent) ==
    /\ Len(raws) < MaxDrift
    /\ Continues(value)
    /\ LET payload == [decodable |-> TRUE, avg_temp1 |-> value, avg_temp2 |-> Steady]
           now == Len(hist)
       IN  hist' = LoopBody(hist, payload, now, recent, "none").hist
    /\ raws' = Append(raws, value)
    /\ UNCHANGED lastMsg
    /\ UNCHANGED subVars
    /\ UNCHANGED notSub

DriftInit ==
    /\ hist = << >>
    /\ last = NoCall
    /\ histB = << >>
    /\ varied = 1
    /\ SubOff
    /\ MsgOff
    /\ FilterOff
    /\ StoreOff

DriftNext ==
    \E recent \in RecentQueries(hist) :
    \E value \in DriftValues : DriftMessage(value, recent)

SpecDrift == DriftInit /\ [][DriftNext]_vars

\* the raw value of message k was replaced by the filter
Clipped(k) == hist[k].avg_temp1 # raws[k]

\* how many further messages of the drift the claim is given to recover
DriftPatience == MaxDrift - 2

---------------------------------------------------------------------------
(* C20 *)

\* C20 as stated, for the streams of the model: when a raw value of a drift
\* was replaced and the drift went on for DriftPatience more messages, one of
\* these later raw values was stored unchanged.
C20_DriftNotClippedForever ==
    \A k \in DOMAIN raws :
        (Clipped(k) /\ Len(raws) >= k + DriftPatience)
            => \E j \in (k + 1)..Len(raws) : ~Clipped(j)

---------------------------------------------------------------------------
(* C21 *)

\* C21 as stated: the row save_temperature appended holds -999.0 for a sensor
\* whose raw value was -999.0, and holds the raw value unchanged for a sensor
\* for which the row appended just before (the most recently stored value)
\* holds -999.0.
C21_SentinelPreserved ==
    last.called =>
        \A sensor \in {1, 2} :
            /\ last.raw[sensor] = Sentinel
                => Temp(hist[Len(hist)], sensor) = Sentinel
            /\ (Len(hist) >= 2 /\ Temp(hist[Len(hist) - 1], sensor) = Sentinel)
                => Temp(hist[Len(hist)], sensor) = last.raw[sensor]

---------------------------------------------------------------------------
(* Scenario B: a stream of messages into an empty table.  The clock is read
   anew for every row and is not monotone. *)

\* model bound: the stream has at most MaxStream messages
MaxStream == 3

\* the raw values of sensor 1: those of the stream (100,50),(90,50),(60,50)
\* and one below min_temp
StreamValues == {5, 50, 60, 90, 100}

\* the raw value of sensor 2, the same in every message
StreamSteady == 50

\* the loop body for the next message of the stream
StreamMessage(value, now, recent) ==
    /\ Len(raws) < MaxStream
    /\ LET payload == [decodable |-> TRUE, avg_temp1 |-> value,
                       avg_temp2 |-> StreamSteady]
       IN  hist' = LoopBody(hist, payload, now, recent, "none").hist
    /\ raws' = Append(raws, value)
    /\ UNCHANGED lastMsg
    /\ UNCHANGED subVars
    /\ UNCHANGED notSub

StreamInit ==
    /\ hist = << >>
    /\ last = NoCall
    /\ histB = << >>
    /\ varied = 1
    /\ SubOff
    /\ MsgOff
    /\ FilterOff
    /\ StoreOff

StreamNext ==
    \E recent \in RecentQueries(hist) :
    \E value \in StreamValues, now \in 0..MaxClock :
        StreamMessage(value, now, recent)

SpecStream == StreamInit /\ [][StreamNext]_vars

\* what the k-th row holds for sensor 1 when the k-th message is judged
\* against the rows appended for the messages before it: none for the first,
\* one (no trend) for the second, the last two from the third on
JudgedByStored(k) ==
    IF k = 1
    THEN raws[k]
    ELSE LET prev == hist[k - 1].avg_temp1
             prev_prev == IF k >= 3 THEN hist[k - 2].avg_temp1 ELSE None
         IN  IF is_valid_reading(raws[k], prev, prev_prev) THEN raws[k] ELSE prev

---------------------------------------------------------------------------
(* C22 *)

\* C22 as stated: every message of the stream has its row; the first row holds
\* the raw value, the second is decided by floor and band against the first,
\* every later one by floor, band and trend against the two rows appended
\* before it; and the stream 100, 90, 60 is stored unchanged.
C22_ScenarioB ==
    /\ Len(hist) = Len(raws)
    /\ \A k \in DOMAIN raws : hist[k].avg_temp1 = JudgedByStored(k)
    /\ raws = <<100, 90, 60>> => \A k \in DOMAIN raws : hist[k].avg_temp1 = raws[k]

---------------------------------------------------------------------------
(* save_temperature called with either value of the flag, at one reading of
   the clock: rows with equal timestamps, any of which the query may return. *)

\* the raw values of a call: the sentinel, one below min_temp, and two that
\* are outside each other's band
FlagValues == {Sentinel, 5, 20, 40}

FlagNext ==
    \/ \E recent \in RecentQueries(hist) :
       \E avg_temp1 \in FlagValues, avg_temp2 \in FlagValues :
       \E apply_outlier_filter \in BOOLEAN :
            save_temperature(avg_temp1, avg_temp2, apply_outlier_filter, 0, recent)
    \/ clear_database

SpecFlag == PipeInit /\ [][FlagNext]_vars

---------------------------------------------------------------------------
(* C23 *)

\* C23: when save_temperature was called with apply_outlier_filter false, the
\* row it appended holds the two raw inputs, whatever the table held.
C23_FilterDisabledStoresRaw ==
    (last.called /\ ~last.filter)
        => /\ Len(hist) >= 1
           /\ hist[Len(hist)].avg_temp1 = last.raw[1]
           /\ hist[Len(hist)].avg_temp2 = last.raw[2]

\* an unfiltered call stored 5 and 40 after a row holding 20 and 20: the
\* filter would have replaced both
C23_Witness ==
    /\ last.called
    /\ ~last.filter
    /\ last.raw = <<5, 40>>
    /\ Len(hist) = 2
    /\ hist[1].avg_temp1 = 20
    /\ hist[1].avg_temp2 = 20
    /\ hist[2].avg_temp1 = 5
    /\ hist[2].avg_temp2 = 40

---------------------------------------------------------------------------
(* C24 *)

\* the workers that are in the listening loop: waiting in listen() or running
\* the body for a message
Listening == {w \in Workers : wpc[w] \in {"listen", "process"}}

\* the worker w runs its cleanup: the finally clause of _listen_loop
Cleanup(w) == wpc[w] = "finally" /\ wpc'[w] = "dead"

\* C24 as stated: at no time are two workers in the listening loop, and the
\* PubSub object a worker unsubscribes in its finally clause is the one that
\* worker created.
C24_AtMostOneWorker ==
    /\ [](Cardinality(Listening) <= 1)
    /\ [][\A w \in Workers : (Cleanup(w) /\ pubsub # None) => pubsub = w]_vars

---------------------------------------------------------------------------
(* C25 *)

\* stop() has set running to false since the worker w was started: the flag is
\* false, or start() has since been passed again and has made another thread
\* (only stop() ever sets the flag to false)
Cancelled(w) == wpc[w] \notin {"unborn", "dead"} /\ (~running \/ thread # w)

\* C25 as stated: a worker that waits in listen() after stop() has set the
\* flag to false takes no message into the body of the loop: its next step
\* leaves the loop.
C25_NoMessageAfterStop ==
    [][\A w \in Workers :
        (wpc[w] = "listen" /\ Cancelled(w)) => wpc'[w] \in {"listen", "finally"}]_vars

---------------------------------------------------------------------------
(* C26 *)

\* the worker w takes a message into the body of the loop
Taken(w) == wpc[w] = "listen" /\ wpc'[w] = "process"

---------------------------------------------------------------------------
(* C27 *)

\* the positions of the row appended last and of the one appended before it
LastInsertions(h) ==
    IF Len(h) = 0 THEN << >>
    ELSE IF Len(h) = 1 THEN <<1>>
    ELSE <<Len(h), Len(h) - 1>>

\* C27 as stated: a filtering call of save_temperature decides as
\* is_valid_reading does when prev and prev_prev are taken from the row
\* appended last and the row appended before it, whatever the timestamps: the
\* verdicts and the pair stored are those.
C27_ContextIsLastInsertions ==
    [][(last'.called /\ last'.filter /\ Len(hist') = Len(hist) + 1) =>
          LET d == FilteredPair(hist, LastInsertions(hist), last'.raw[1],
                                last'.raw[2])
          IN  /\ last'.rejected = d.rejected
              /\ hist'[Len(hist')].avg_temp1 = d.final[1]
              /\ hist'[Len(hist')].avg_temp2 = d.final[2]]_vars

---------------------------------------------------------------------------
(* C28 *)

\* every thread has come back from a set_threshold call whose write to the
\* file succeeded
AllSetsReturned ==
    /\ Quiescent
    /\ \A t \in Threads : Back(t, "set") /\ ~saveFailed[t]

\* C28: when concurrent set_threshold calls, their writes succeeding, have all
\* returned, the file holds the settings in memory, and the threshold in both
\* is the value of the call that held the lock last.
C28_FileAgreesWithMemory ==
    AllSetsReturned =>
        /\ file = FileJson(settings)
        /\ Threshold(Loads(file.text)) = Threshold(settings)
        /\ Threshold(settings) = committed

\* two concurrent sets with different values; thread 1 held the lock last
C28_Witness ==
    /\ AllSetsReturned
    /\ arg[1] = 2
    /\ arg[2] = 1
    /\ committed = 2
    /\ durable = 2
    /\ file.kind = "json"

=============================================================================
